---- MODULE Spec2Model ----
(***************************************************************************)
(* The IoT dashboard backend (backend/server.js): an Express process that  *)
(* validates its environment, then proxies each inbound request to the     *)
(* telemetry provider (ThingSpeak) or to the analytics (ML) service with   *)
(* axios, and translates upstream failures into JSON error bodies.         *)
(*                                                                         *)
(* JavaScript values are modelled as records [t, o]: t is the JS type and  *)
(* o the own enumerable properties (a function from property names to      *)
(* strings).  A body on the wire is a record [fmt, j]: fmt says whether    *)
(* the bytes are JSON text, plain text, or absent, and j is the value the  *)
(* bytes denote.                                                           *)
(*                                                                         *)
(* Two more programs of the repository are modelled beside it, each under  *)
(* its own specification: the alert mailer (backend/utils/emailService.js) *)
(* and the React dashboard (frontend/my-react-app/src).                    *)
(***************************************************************************)
EXTENDS Naturals, Sequences, FiniteSets, TLC

\* Number of inbound requests that can be in flight at once.
MaxReqs == 2
\* Longest PDF body (in chunks) the analytics upstream streams.
MaxChunks == 2
\* Longest anomalies array handed to the alert mailer.
MaxAnomalies == 2
\* Number of fetchData invocations of the dashboard that are explored.
MaxPolls == 2
\* Number of fetchReport calls of the report panel in flight at once.
MaxPanelCalls == 1

VARIABLES
  env,      \* process.env, fixed when the process is launched
  config,   \* the module-level constants read from process.env
  proc,     \* "starting" | "exited" | "listening" | "crashed"
  reqs,     \* in-flight inbound requests, by connection slot
  mail,     \* the alert mailer: its module constants and its one invocation
  app,      \* the state of the dashboard's App component
  polls,    \* the fetchData invocations of App, in the order they were issued
  panel,    \* the ReportPanel instance and its calls in flight
  button    \* the DownloadReportButton instance and its call in flight

mailVars == <<mail>>

dashVars == <<app, polls, panel, button>>

vars == <<env, config, proc, reqs, mail, app, polls, panel, button>>

Slots == 1..MaxReqs

----------------------------------------------------------------------------
(* JavaScript values and wire bodies *)

EmptyObj == [k \in {} |-> ""]

Obj(o) == [t |-> "object", o |-> o]

Str(o) == [t |-> "string", o |-> o]

JsUndefined == [t |-> "undefined", o |-> EmptyObj]

JsonWire(j) == [fmt |-> "json", j |-> j]

TextWire(j) == [fmt |-> "text", j |-> j]

NoBody == [fmt |-> "none", j |-> JsUndefined]

\* {...a, ...b}: properties of b override those of a
Spread(a, b) ==
  [k \in (DOMAIN a) \cup (DOMAIN b) |-> IF k \in DOMAIN b THEN b[k] ELSE a[k]]

----------------------------------------------------------------------------
(* Environment and startup *)

Undefined == "<undefined>"

EnvNames == {"THINGSPEAK_CHANNEL_ID", "THINGSPEAK_API_KEY", "ML_SERVICE_URL"}

EnvValues(k) ==
  CASE k = "THINGSPEAK_CHANNEL_ID" -> {Undefined, "", "3063140"}
    [] k = "THINGSPEAK_API_KEY"    -> {Undefined, "", "KEY"}
    [] k = "ML_SERVICE_URL"        -> {Undefined, "", "http://ml:5001"}

\* JavaScript !v for a string-or-undefined v
Falsy(v) == v = Undefined \/ v = ""

Environments ==
  {e \in [EnvNames -> UNION {EnvValues(k) : k \in EnvNames}] :
     \A k \in EnvNames : e[k] \in EnvValues(k)}

ReadEnv(e) == [k \in EnvNames |-> e[k]]

\* Faulty variant of MissingEnv: the analytics URL is not validated
MissingEnvLax(c) ==
  Falsy(c["THINGSPEAK_CHANNEL_ID"]) \/ Falsy(c["THINGSPEAK_API_KEY"])

MissingEnv(c) ==
  Falsy(c["THINGSPEAK_CHANNEL_ID"]) \/ Falsy(c["THINGSPEAK_API_KEY"])
    \/ Falsy(c["ML_SERVICE_URL"])

ResultCount == 50

THINGSPEAK_URL ==
  [base |-> "https://api.thingspeak.com", path |-> "/channels/:id/feeds.json",
   channel |-> config["THINGSPEAK_CHANNEL_ID"],
   api_key |-> config["THINGSPEAK_API_KEY"], results |-> ResultCount]

MlUrl(path) ==
  [base |-> config["ML_SERVICE_URL"], path |-> path,
   channel |-> "", api_key |-> "", results |-> 0]

----------------------------------------------------------------------------
(* Express response object *)

\* starts counts how often the status line and headers were handed to the
\* socket (res.json, or the first write of a pipe); Node refuses the second
FreshRes ==
  [statusCode |-> 200, json |-> NoBody, ctype |-> "", cdisp |-> "",
   bytes |-> <<>>, headersSent |-> FALSE, ended |-> FALSE, starts |-> 0]

\* res.status(code)
ResStatus(res, code) == [res EXCEPT !.statusCode = code]

\* res.setHeader(name, value) for the two headers the PDF route sets
ResSetHeaders(res, cdisp, ctype) == [res EXCEPT !.cdisp = cdisp, !.ctype = ctype]

\* res.json(v): JSON.stringify(v) is sent as the whole body and the response ends
ResJson(res, v) ==
  [res EXCEPT !.json = JsonWire(v), !.ctype = "application/json",
              !.headersSent = TRUE, !.ended = TRUE, !.starts = @ + 1]

----------------------------------------------------------------------------
(* axios *)

TimeoutData == 10000
TimeoutMlHealth == 5000
TimeoutDetect == 15000
TimeoutTrain == 20000
TimeoutReport == 15000
TimeoutDownload == 20000
\* axios' default when no timeout option is given: the call never times out
NoTimeout == 0

NoResult == [ok |-> FALSE, kind |-> "none", body |-> NoBody, cdisp |-> ""]

\* axios.get(url, {timeout, responseType})
AxiosGet(url, timeout, stream) ==
  [url |-> url, method |-> "GET", data |-> NoBody, timeout |-> timeout,
   stream |-> stream, state |-> "pending", result |-> NoResult]

\* axios.post(url, data, {timeout}): data is serialised as JSON
AxiosPost(url, data, timeout) ==
  [url |-> url, method |-> "POST", data |-> JsonWire(data), timeout |-> timeout,
   stream |-> FALSE, state |-> "pending", result |-> NoResult]

\* response.data: JSON text is parsed; text that is not JSON is kept as the
\* string it is (axios' default transformResponse swallows the parse error)
AxiosData(body) == body.j

IsTelemetry(url) == url.base = "https://api.thingspeak.com"

\* error.message of the rejection
AxiosMessage(call, kind) ==
  CASE kind = "timeout" ->
         (CASE call.timeout = 5000  -> "timeout of 5000ms exceeded"
            [] call.timeout = 10000 -> "timeout of 10000ms exceeded"
            [] call.timeout = 15000 -> "timeout of 15000ms exceeded"
            [] call.timeout = 20000 -> "timeout of 20000ms exceeded"
            [] OTHER                -> "timeout exceeded")
    [] kind = "refused" ->
         (IF IsTelemetry(call.url)
            THEN "connect ECONNREFUSED api.thingspeak.com:443"
            ELSE "connect ECONNREFUSED ml:5001")
    [] OTHER -> "Request failed with status code 503"

----------------------------------------------------------------------------
(* Upstream services: what they can answer *)

\* The telemetry provider's feed JSON
FeedBody == JsonWire(Obj(("channel" :> "3063140") @@ ("feeds" :> "[...]")))

\* The analytics service's JSON results
AnalyticsBody == JsonWire(Obj(("success" :> "true") @@ ("anomalies" :> "[]")))

HealthyBody == JsonWire(Obj("status" :> "healthy"))

\* A health payload that itself carries a key named mlServiceAvailable
ShadowingBody ==
  JsonWire(Obj(("mlServiceAvailable" :> "false") @@ ("status" :> "degraded")))

\* A 2xx answer whose body is not JSON (a proxy's HTML page)
HtmlBody == TextWire(Str("0" :> "<"))

\* The bodies each upstream endpoint can answer a 2xx with
UpstreamBodies(url) ==
  IF IsTelemetry(url) THEN {FeedBody, HtmlBody}
  ELSE IF url.path = "/health" THEN {HealthyBody, ShadowingBody}
  ELSE IF url.path = "/api/detect-anomalies" THEN {AnalyticsBody, HtmlBody}
  ELSE {AnalyticsBody}

CustomDisposition == "attachment; filename=custom.pdf"

FailureKinds == {"refused", "badStatus"}

Answers(call) ==
  (IF call.stream
     THEN {[ok |-> TRUE, kind |-> "ok", body |-> NoBody, cdisp |-> cd] :
             cd \in {"", CustomDisposition}}
     ELSE {[ok |-> TRUE, kind |-> "ok", body |-> b, cdisp |-> ""] :
             b \in UpstreamBodies(call.url)})
  \cup {[ok |-> FALSE, kind |-> k, body |-> NoBody, cdisp |-> ""] :
          k \in FailureKinds}

\* The k-th chunk of the PDF the analytics service streams
PdfChunk(k) == k

----------------------------------------------------------------------------
(* Inbound requests and routing *)

Idle == [pc |-> "idle"]

\* req.body after express.json() is {} when the request carries no JSON
\* body, and otherwise the parsed object, such as this detection request
DetectBody ==
  Obj(("field1_data" :> "[1,2,3]") @@ ("field2_data" :> "[1,2,3]"))

\* A body declared as JSON that JSON.parse rejects
Unparsable == [t |-> "unparsable", o |-> EmptyObj]

Paths ==
  {"/health", "/api/data", "/api/ml/health", "/api/ml/detect-anomalies",
   "/api/ml/train-model", "/api/report", "/api/download-report", "/api/status",
   "/api/nonexistent"}

\* An inbound request: method, path, query string, the headers the caller
\* chose, and the body
Request(method, path, query, headers, body) ==
  [method |-> method, path |-> path, query |-> query, headers |-> headers,
   body |-> body]

\* The inbound requests explored: every path with GET and no body, the
\* bodies on the routes that read or could forward them, a defined path with
\* another method, a browser's CORS preflight, and a body that does not parse.
Inbound ==
  {Request("GET", p, "", "", Obj(EmptyObj)) : p \in Paths}
  \cup {Request("POST", "/api/ml/detect-anomalies", "", "", DetectBody),
        Request("POST", "/api/ml/train-model", "", "", Obj(EmptyObj)),
        Request("GET", "/api/report", "", "", DetectBody),
        Request("POST", "/api/data", "", "", Obj(EmptyObj)),
        Request("OPTIONS", "/api/ml/detect-anomalies", "", "", Obj(EmptyObj)),
        Request("POST", "/api/nonexistent", "", "", Unparsable)}

\* What a caller can add to a request for telemetry: a query string naming
\* another channel, key and count, a header, a body
CallerQuery == "channel=1&api_key=OTHER&results=1"

CallerHeader == "x-api-key: OTHER"

CallerInbound ==
  UNION {{Request("GET", p, "", "", Obj(EmptyObj)),
          Request("GET", p, CallerQuery, "", Obj(EmptyObj)),
          Request("GET", p, "", CallerHeader, Obj(EmptyObj)),
          Request("GET", p, "", "", DetectBody)} :
           p \in {"/api/data", "/api/status"}}

\* Faulty variant of Route: the path alone selects the route
RouteIgnoringMethod(method, path) ==
  CASE path = "/health"                  -> "health"
    [] path = "/api/data"                -> "data"
    [] path = "/api/ml/health"           -> "mlHealth"
    [] path = "/api/ml/detect-anomalies" -> "detect"
    [] path = "/api/ml/train-model"      -> "train"
    [] path = "/api/report"              -> "report"
    [] path = "/api/download-report"     -> "download"
    [] path = "/api/status"              -> "status"
    [] OTHER                             -> "notFound"

\* Express matches method and path against the routes in registration order
Route(method, path) ==
  CASE method = "GET"  /\ path = "/health"                  -> "health"
    [] method = "GET"  /\ path = "/api/data"                -> "data"
    [] method = "GET"  /\ path = "/api/ml/health"           -> "mlHealth"
    [] method = "POST" /\ path = "/api/ml/detect-anomalies" -> "detect"
    [] method = "POST" /\ path = "/api/ml/train-model"      -> "train"
    [] method = "GET"  /\ path = "/api/report"              -> "report"
    [] method = "GET"  /\ path = "/api/download-report"     -> "download"
    [] method = "GET"  /\ path = "/api/status"              -> "status"
    [] OTHER                                                -> "notFound"

NewReq(in) ==
  [method |-> in.method, path |-> in.path, query |-> in.query,
   headers |-> in.headers, body |-> in.body,
   route |-> Route(in.method, in.path), pc |-> "received",
   calls |-> <<>>, res |-> FreshRes, status |-> EmptyObj,
   upBytes |-> <<>>, upOpen |-> FALSE]

\* The outbound call the handler is (or was last) awaiting
LastCall(q) == q.calls[Len(q.calls)]

\* The handler issues an outbound call and suspends at its await
Await(q, pc, call) ==
  [q EXCEPT !.pc = pc, !.calls = Append(@, call)]

\* The handler sends its JSON response and returns
Finish(q, res) == [q EXCEPT !.pc = "done", !.res = res]

\* The catch block of a proxy route: res.status(500).json({error, message})
ErrorEnvelope(res, error, message) ==
  ResJson(ResStatus(res, 500),
          Obj(("error" :> error) @@ ("message" :> message)))

ErrorText(route) ==
  CASE route = "data"     -> "Failed to fetch ThingSpeak data"
    [] route = "detect"   -> "Failed to detect anomalies"
    [] route = "train"    -> "Failed to train model"
    [] route = "report"   -> "Failed to fetch report"
    [] route = "download" -> "Failed to download PDF"

----------------------------------------------------------------------------
(* Route handlers.  XxxStart is the handler up to its first await;          *)
(* XxxSettled is the rest of the handler, run when the awaited axios call   *)
(* `call` has resolved or rejected (call.result).                           *)

\* cors(): a preflight is answered by the middleware, 204 and no body, before
\* any route is looked at
CorsPreflight(q) ==
  Finish(q, [ResStatus(q.res, 204) EXCEPT !.headersSent = TRUE,
                                          !.ended = TRUE, !.starts = @ + 1])

\* express.json(): a body that does not parse is passed to next(err); with no
\* error-handling middleware registered, Express answers 400 with its own
\* HTML error page, and neither a route nor the 404 handler runs
BodyParserError(q) ==
  Finish(q, [ResStatus(q.res, 400) EXCEPT
               !.json = TextWire(Str("0" :> "<")), !.ctype = "text/html",
               !.headersSent = TRUE, !.ended = TRUE, !.starts = @ + 1])

HealthRoute(q) ==
  Finish(q, ResJson(q.res,
    Obj(("status" :> "Backend running") @@ ("timestamp" :> "<now>"))))

NotFoundRoute(q) ==
  Finish(q, ResJson(ResStatus(q.res, 404),
    Obj(("error" :> "Route not found") @@ ("path" :> q.path)
          @@ ("method" :> q.method))))

\* Faulty variant of DataStart: the call is made without a timeout option
DataStartNoTimeout(q) ==
  Await(q, "await", AxiosGet(THINGSPEAK_URL, NoTimeout, FALSE))

DataStart(q) == Await(q, "await", AxiosGet(THINGSPEAK_URL, TimeoutData, FALSE))

\* Faulty variant of DataSettled: the payload is decorated before it is sent
DataSettledDecorated(q, call) ==
  IF call.result.ok
    THEN Finish(q, ResJson(q.res,
           Obj(Spread(AxiosData(call.result.body).o,
                      "source" :> "thingspeak"))))
    ELSE Finish(q, ErrorEnvelope(q.res, "Failed to fetch ThingSpeak data",
                                 AxiosMessage(call, call.result.kind)))

DataSettled(q, call) ==
  IF call.result.ok
    THEN Finish(q, ResJson(q.res, AxiosData(call.result.body)))
    ELSE Finish(q, ErrorEnvelope(q.res, "Failed to fetch ThingSpeak data",
                                 AxiosMessage(call, call.result.kind)))

MlHealthStart(q) ==
  Await(q, "await", AxiosGet(MlUrl("/health"), TimeoutMlHealth, FALSE))

\* Faulty variant of MlHealthSettled: the catch block answers like the proxy routes
MlHealthSettledAs500(q, call) ==
  IF call.result.ok
    THEN Finish(q, ResJson(q.res,
           Obj(Spread("mlServiceAvailable" :> "true",
                      AxiosData(call.result.body).o))))
    ELSE Finish(q, ErrorEnvelope(q.res, "ML service unavailable",
                                 AxiosMessage(call, call.result.kind)))

MlHealthSettled(q, call) ==
  IF call.result.ok
    THEN Finish(q, ResJson(q.res,
           Obj(Spread("mlServiceAvailable" :> "true",
                      AxiosData(call.result.body).o))))
    ELSE Finish(q, ResJson(q.res,
           Obj(("mlServiceAvailable" :> "false")
                 @@ ("status" :> "ML service unavailable")
                 @@ ("message" :> AxiosMessage(call, call.result.kind)))))

\* Faulty variant of DetectStart: the request body is not passed on
DetectStartDropsBody(q) ==
  Await(q, "await",
        AxiosPost(MlUrl("/api/detect-anomalies"), Obj(EmptyObj), TimeoutDetect))

DetectStart(q) ==
  Await(q, "await",
        AxiosPost(MlUrl("/api/detect-anomalies"), q.body, TimeoutDetect))

DetectSettled(q, call) ==
  IF call.result.ok
    THEN Finish(q, ResJson(q.res, AxiosData(call.result.body)))
    ELSE Finish(q, ErrorEnvelope(q.res, "Failed to detect anomalies",
                                 AxiosMessage(call, call.result.kind)))

TrainStart(q) ==
  Await(q, "await", AxiosPost(MlUrl("/api/train-model"), q.body, TimeoutTrain))

TrainSettled(q, call) ==
  IF call.result.ok
    THEN Finish(q, ResJson(q.res, AxiosData(call.result.body)))
    ELSE Finish(q, ErrorEnvelope(q.res, "Failed to train model",
                                 AxiosMessage(call, call.result.kind)))

ReportStart(q) ==
  Await(q, "await", AxiosGet(MlUrl("/api/report"), TimeoutReport, FALSE))

\* Faulty variant of ReportSettled: a failed call is tried once more
ReportSettledRetries(q, call) ==
  IF call.result.ok
    THEN Finish(q, ResJson(q.res, AxiosData(call.result.body)))
  ELSE IF Len(q.calls) < 2
    THEN Await(q, "await", AxiosGet(MlUrl("/api/report"), TimeoutReport, FALSE))
  ELSE Finish(q, ErrorEnvelope(q.res, "Failed to fetch report",
                               AxiosMessage(call, call.result.kind)))

ReportSettled(q, call) ==
  IF call.result.ok
    THEN Finish(q, ResJson(q.res, AxiosData(call.result.body)))
    ELSE Finish(q, ErrorEnvelope(q.res, "Failed to fetch report",
                                 AxiosMessage(call, call.result.kind)))

DownloadStart(q) ==
  Await(q, "await",
        AxiosGet(MlUrl("/api/download-report"), TimeoutDownload, TRUE))

DefaultDisposition == "attachment; filename=report.pdf"

\* Faulty variant of DownloadSettled: the upstream's file name is ignored
DownloadSettledDefaultName(q, call) ==
  IF call.result.ok
    THEN [q EXCEPT !.pc = "piping", !.upOpen = TRUE,
                   !.res = ResSetHeaders(q.res, DefaultDisposition,
                                         "application/pdf")]
    ELSE Finish(q, ErrorEnvelope(q.res, "Failed to download PDF",
                                 AxiosMessage(call, call.result.kind)))

\* On success the headers are set and response.data.pipe(res) is started: the
\* handler returns with the upstream stream open and nothing written yet.
DownloadSettled(q, call) ==
  IF call.result.ok
    THEN [q EXCEPT !.pc = "piping", !.upOpen = TRUE,
                   !.res = ResSetHeaders(q.res,
                             IF call.result.cdisp # "" THEN call.result.cdisp
                                                       ELSE DefaultDisposition,
                             "application/pdf")]
    ELSE Finish(q, ErrorEnvelope(q.res, "Failed to download PDF",
                                 AxiosMessage(call, call.result.kind)))

\* Faulty variant of StatusStart: the result count is taken from the query
StatusStartCountFromQuery(q) ==
  Await([q EXCEPT !.status = ("backend" :> "running")
                                @@ ("thingspeak" :> "unknown")
                                @@ ("mlService" :> "unknown")],
        "awaitTs",
        AxiosGet([THINGSPEAK_URL EXCEPT
                    !.results = IF q.query = "" THEN ResultCount ELSE 1],
                 NoTimeout, FALSE))

StatusStart(q) ==
  Await([q EXCEPT !.status = ("backend" :> "running")
                                @@ ("thingspeak" :> "unknown")
                                @@ ("mlService" :> "unknown")],
        "awaitTs", AxiosGet(THINGSPEAK_URL, NoTimeout, FALSE))

\* The probes bind neither the response (`await axios.get(...)` alone) nor
\* the error (`catch {}`): of a probe only whether it resolved is on record
Discarded(q) ==
  [q EXCEPT !.calls[Len(q.calls)].result.body = NoBody,
            !.calls[Len(q.calls)].result.kind =
               IF LastCall(q).result.ok THEN "ok" ELSE "rejected"]

\* Faulty variant of StatusTelemetrySettled: the catch block of the telemetry
\* probe answers 500 and the handler goes on to the second probe
StatusTelemetrySettledAnswersOnFailure(q, call) ==
  Await([Discarded(q) EXCEPT
           !.status = IF call.result.ok
                        THEN [@ EXCEPT !["thingspeak"] = "connected"]
                        ELSE @,
           !.res = IF call.result.ok THEN @
                   ELSE ErrorEnvelope(@, "Failed to fetch ThingSpeak data",
                                      "rejected")],
        "awaitMl", AxiosGet(MlUrl("/health"), NoTimeout, FALSE))

\* After the telemetry probe: record it, then probe the analytics service
StatusTelemetrySettled(q, call) ==
  Await([Discarded(q) EXCEPT !.status = IF call.result.ok
                               THEN [@ EXCEPT !["thingspeak"] = "connected"]
                               ELSE @],
        "awaitMl", AxiosGet(MlUrl("/health"), NoTimeout, FALSE))

\* Faulty variant of StatusMlSettled: the analytics probe only counts when the
\* telemetry probe succeeded too
StatusMlSettledMasked(q, call) ==
  LET st == IF call.result.ok /\ q.status["thingspeak"] = "connected"
              THEN [q.status EXCEPT !["mlService"] = "connected"]
              ELSE q.status
  IN  Finish([Discarded(q) EXCEPT !.status = st], ResJson(q.res, Obj(st)))

\* After the analytics probe: record it and send the status object
StatusMlSettled(q, call) ==
  LET st == IF call.result.ok
              THEN [q.status EXCEPT !["mlService"] = "connected"]
              ELSE q.status
  IN  Finish([Discarded(q) EXCEPT !.status = st], ResJson(q.res, Obj(st)))

\* A request arrives: the two middlewares run, then Express runs the
\* matching handler to its first await
Start(q) ==
  CASE q.method = "OPTIONS" -> CorsPreflight(q)
    [] q.body = Unparsable  -> BodyParserError(q)
    [] q.route = "health"   -> HealthRoute(q)
    [] q.route = "data"     -> DataStart(q)
    [] q.route = "mlHealth" -> MlHealthStart(q)
    [] q.route = "detect"   -> DetectStart(q)
    [] q.route = "train"    -> TrainStart(q)
    [] q.route = "report"   -> ReportStart(q)
    [] q.route = "download" -> DownloadStart(q)
    [] q.route = "status"   -> StatusStart(q)
    [] OTHER                -> NotFoundRoute(q)

\* The awaited call settles with `result`; the handler resumes after its await
Settled(q, result, state) ==
  LET call == [LastCall(q) EXCEPT !.result = result, !.state = state]
      q1   == [q EXCEPT !.calls[Len(q.calls)] = call]
  IN  CASE q.pc = "awaitTs"       -> StatusTelemetrySettled(q1, call)
        [] q.pc = "awaitMl"       -> StatusMlSettled(q1, call)
        [] q.route = "data"       -> DataSettled(q1, call)
        [] q.route = "mlHealth"   -> MlHealthSettled(q1, call)
        [] q.route = "detect"     -> DetectSettled(q1, call)
        [] q.route = "train"      -> TrainSettled(q1, call)
        [] q.route = "report"     -> ReportSettled(q1, call)
        [] q.route = "download"   -> DownloadSettled(q1, call)

AllAnswers ==
  UNION {Answers(AxiosGet(u, NoTimeout, st)) :
           u \in {THINGSPEAK_URL, MlUrl("/health"), MlUrl("/api/report")},
           st \in BOOLEAN}

Awaiting(q) == q.pc \in {"await", "awaitTs", "awaitMl"}

----------------------------------------------------------------------------
(* The alert mailer (emailService.js): module constants and the pure parts  *)
(* of sendAnomalyAlert                                                      *)

\* process.env.RESEND_API_KEY as the module may find it
ApiKeys == {Undefined, "", "re_key"}

\* process.env.ALERT_RECIPIENT as the module may find it
Recipients == {Undefined, "ops@example.com"}

\* ALERT_RECIPIENT = process.env.ALERT_RECIPIENT || 'sganta633@gmail.com'
AlertRecipient(v) == IF Falsy(v) THEN "sganta633@gmail.com" ELSE v

SENDER_EMAIL == "onboarding@resend.dev"

\* An element of the anomalies array: an anomaly object, given here by its
\* severity, or null
NullItem == "<null>"

AnomalyItems == {"high", "low", NullItem}

\* The arguments sendAnomalyAlert is called with: nothing, an object with no
\* anomalies array, or an object with one; with or without statistics
AnomalyData(kind, items, statistics) ==
  [kind |-> kind, items |-> items, statistics |-> statistics]

NoArgument == AnomalyData("undefined", <<>>, FALSE)

AlertInputs ==
  {NoArgument}
  \cup {AnomalyData("noList", <<>>, st) : st \in BOOLEAN}
  \cup {AnomalyData("list", l, st) :
          l \in UNION {[1..n -> AnomalyItems] : n \in 0..MaxAnomalies},
          st \in BOOLEAN}

\* anomalies.filter(a => a.severity === 'high').length
HighSeverityCount(items) ==
  Cardinality({i \in 1..Len(items) : items[i] = "high"})

\* The statements between the key check and the fetch: destructuring,
\* anomalies.map and .filter, the two templates, emailData.  They throw a
\* TypeError when anomalyData is undefined, when it has no anomalies array,
\* and when an element is null; otherwise they yield the request to send.
BuildEmail(key, recipient, data) ==
  CASE data.kind = "undefined" ->
         [threw |-> TRUE, email |-> <<>>,
          message |-> "Cannot destructure property 'anomalies' of undefined"]
    [] data.kind = "noList" ->
         [threw |-> TRUE, email |-> <<>>,
          message |-> "Cannot read properties of undefined (reading 'map')"]
    [] \E i \in 1..Len(data.items) : data.items[i] = NullItem ->
         [threw |-> TRUE, email |-> <<>>,
          message |-> "Cannot read properties of null (reading 'value')"]
    [] OTHER ->
         [threw |-> FALSE, message |-> "",
          email |-> <<[url |-> "https://api.resend.com/emails",
                       method |-> "POST", authorization |-> key,
                       from |-> SENDER_EMAIL, to |-> recipient,
                       count |-> Len(data.items),
                       noun |-> IF Len(data.items) = 1 THEN "Anomaly"
                                                       ELSE "Anomalies",
                       high |-> HighSeverityCount(data.items),
                       rate |-> IF data.statistics THEN "6%" ELSE "N/A%"]>>]

\* What the promise of one invocation holds
Pending == [state |-> "pending", success |-> "", error |-> "", data |-> ""]

\* return {success: true, data}
Succeeded(data) ==
  [state |-> "resolved", success |-> "true", error |-> "", data |-> data]

\* return {success: false, error}
Failed(error) ==
  [state |-> "resolved", success |-> "false", error |-> error, data |-> ""]

\* An exception leaving the async function
Rejected(error) ==
  [state |-> "rejected", success |-> "", error |-> error, data |-> ""]

NoAnswer == [kind |-> "none", ok |-> FALSE, body |-> ""]

\* What the email API can do with a request: the connection fails, or it
\* answers with an OK or a non-OK status and a body that is JSON or not
EmailAnswers ==
  {[kind |-> "network", ok |-> FALSE, body |-> ""]}
  \cup {[kind |-> "response", ok |-> ok, body |-> b] :
          ok \in BOOLEAN, b \in {"json", "undecodable"}}

\* The value response.json() decodes the body to
DecodedBody(answer) == IF answer.ok THEN "{id}" ELSE "{statusCode, message}"

\* The module before it is loaded
Unloaded == [pc |-> "unloaded"]

\* The loaded module with no invocation under way: its two constants
Loaded(key, recipient) ==
  [pc |-> "idle", key |-> key, to |-> recipient, arg |-> NoArgument,
   sent |-> <<>>, answer |-> NoAnswer, promise |-> Pending]

\* sendAnomalyAlert up to its first await, or to its return
AlertStart(m, data) ==
  LET built == BuildEmail(m.key, m.to, data)
      m1    == [m EXCEPT !.arg = data, !.sent = <<>>, !.answer = NoAnswer]
  IN  IF Falsy(m.key)
        THEN [m1 EXCEPT !.pc = "settled",
                        !.promise = Failed("API key not configured")]
      ELSE IF built.threw
        THEN [m1 EXCEPT !.pc = "settled", !.promise = Failed(built.message)]
      ELSE [m1 EXCEPT !.pc = "fetching", !.sent = built.email,
                      !.promise = Pending]

\* Faulty variant of AlertSettled: a body that cannot be decoded escapes
AlertSettledUncaught(m, answer) ==
  LET m1 == [m EXCEPT !.pc = "settled", !.answer = answer]
  IN  CASE answer.kind = "network" ->
             [m1 EXCEPT !.promise =
                Failed("request to https://api.resend.com/emails failed")]
        [] answer.body = "undecodable" ->
             [m1 EXCEPT !.promise = Rejected("invalid json response body")]
        [] answer.ok ->
             [m1 EXCEPT !.promise = Succeeded(DecodedBody(answer))]
        [] OTHER ->
             [m1 EXCEPT !.promise = Failed(DecodedBody(answer))]

\* sendAnomalyAlert from the settling of fetch to its return: a rejected
\* fetch and a rejected response.json() both land in the catch block
AlertSettled(m, answer) ==
  LET m1 == [m EXCEPT !.pc = "settled", !.answer = answer]
  IN  CASE answer.kind = "network" ->
             [m1 EXCEPT !.promise =
                Failed("request to https://api.resend.com/emails failed")]
        [] answer.body = "undecodable" ->
             [m1 EXCEPT !.promise = Failed("invalid json response body")]
        [] answer.ok ->
             [m1 EXCEPT !.promise = Succeeded(DecodedBody(answer))]
        [] OTHER ->
             [m1 EXCEPT !.promise = Failed(DecodedBody(answer))]

MailerOff == mail = Unloaded

----------------------------------------------------------------------------
(* The dashboard (App.js, ReportPanel.js, DownloadReportButton.js): state    *)
(* and the handlers as functions of it                                      *)

\* Where the gateway listens (PORT defaults to 5000) and where the
\* analytics service of the same deployment listens
GatewayOrigin == "http://localhost:5000"

AnalyticsOrigin == "http://localhost:5001"

\* A fetch() in flight: the address it was sent to
Fetch(method, origin, path) ==
  [method |-> method, origin |-> origin, path |-> path]

\* useState(null) of data; a loaded batch is named by the poll that brought it
NoData == [poll |-> 0, feeds |-> "none"]

\* A component that is not rendered has no state
Unmounted == [mounted |-> FALSE]

\* App as its mount creates it: the useState initial values
AppInitial ==
  [mounted |-> TRUE, data |-> NoData, loading |-> TRUE, error |-> "",
   lastUpdate |-> 0, anomalies |-> 0, anomalyStats |-> 0,
   mlLoading |-> FALSE, mlError |-> ""]

\* The condition under which App renders the cards, the charts, the report
\* panel and the download button
Visible(a) == a.mounted /\ ~a.loading /\ a.error = "" /\ a.data # NoData

\* ReportPanel as its mount leaves it: the useState initial values, and the
\* fetchReport of its effect in flight
PanelMounted ==
  [mounted |-> TRUE, report |-> "", loading |-> TRUE, error |-> "",
   calls |-> <<Fetch("GET", AnalyticsOrigin, "/api/report")>>]

\* DownloadReportButton as its mount leaves it
ButtonMounted ==
  [mounted |-> TRUE, downloading |-> FALSE, error |-> "", calls |-> <<>>]

\* The children after App went from state a to state b: unmounted when the
\* block is not rendered (their state is lost, and nothing their calls in
\* flight do afterwards has an effect), mounted afresh when it appears
PanelAfter(a, b, pn) ==
  IF ~Visible(b) THEN Unmounted
  ELSE IF ~Visible(a) THEN PanelMounted
  ELSE pn

ButtonAfter(a, b, bt) ==
  IF ~Visible(b) THEN Unmounted
  ELSE IF ~Visible(a) THEN ButtonMounted
  ELSE bt

\* fetchData up to its await: setError(null) and the request.  result is
\* the invocation's local: what its /api/data request brought.
FetchData(a, ps) ==
  [app |-> [a EXCEPT !.error = ""],
   polls |-> Append(ps, [pc |-> "fetching", result |-> "pending",
                         call |-> Fetch("GET", GatewayOrigin, "/api/data")])]

DataOutcomes == {"feeds", "empty", "notOk", "failed"}

\* detectAnomalies up to its await: the two flags and the request
DetectAnomalies(a, ps, n) ==
  [app |-> [a EXCEPT !.mlLoading = TRUE, !.mlError = ""],
   polls |-> [ps EXCEPT ![n].pc = "detecting",
                        ![n].call = Fetch("POST", GatewayOrigin,
                                          "/api/ml/detect-anomalies")]]

\* Faulty variant of DataSettles: the catch block also drops the batch on
\* display
DataSettlesClearsData(a, ps, n, outcome) ==
  LET done == [ps EXCEPT ![n].pc = "done", ![n].result = outcome]
  IN  CASE outcome = "notOk" ->
             [app |-> [a EXCEPT !.error = "Failed to fetch data from server",
                                !.data = NoData, !.loading = FALSE],
              polls |-> done]
        [] outcome = "failed" ->
             [app |-> [a EXCEPT !.error = "Failed to fetch",
                                !.data = NoData, !.loading = FALSE],
              polls |-> done]
        [] outcome = "empty" ->
             [app |-> [a EXCEPT !.data = [poll |-> n, feeds |-> "none"],
                                !.lastUpdate = n, !.loading = FALSE],
              polls |-> done]
        [] OTHER ->
             DetectAnomalies([a EXCEPT !.data = [poll |-> n, feeds |-> "some"],
                                       !.lastUpdate = n, !.loading = FALSE],
                             [ps EXCEPT ![n].result = outcome], n)

\* fetchData after its await, for the n-th poll.  lastUpdate, the time of
\* arrival, is named by the poll that set it.
DataSettles(a, ps, n, outcome) ==
  LET done == [ps EXCEPT ![n].pc = "done", ![n].result = outcome]
  IN  CASE outcome = "notOk" ->
             [app |-> [a EXCEPT !.error = "Failed to fetch data from server",
                                !.loading = FALSE],
              polls |-> done]
        [] outcome = "failed" ->
             [app |-> [a EXCEPT !.error = "Failed to fetch",
                                !.loading = FALSE],
              polls |-> done]
        [] outcome = "empty" ->
             [app |-> [a EXCEPT !.data = [poll |-> n, feeds |-> "none"],
                                !.lastUpdate = n, !.loading = FALSE],
              polls |-> done]
        [] OTHER ->
             DetectAnomalies([a EXCEPT !.data = [poll |-> n, feeds |-> "some"],
                                       !.lastUpdate = n, !.loading = FALSE],
                             [ps EXCEPT ![n].result = outcome], n)

DetectOutcomes == {"success", "noSuccess", "notOk", "failed"}

\* Faulty variant of DetectSettles: the catch block records the error and
\* leaves the progress flag alone
DetectSettlesKeepsFlag(a, n, outcome) ==
  CASE outcome = "success" ->
         [a EXCEPT !.anomalies = n, !.anomalyStats = n, !.mlLoading = FALSE]
    [] outcome = "noSuccess" ->
         [a EXCEPT !.mlLoading = FALSE]
    [] outcome = "notOk" ->
         [a EXCEPT !.mlError = "ML service unavailable"]
    [] OTHER ->
         [a EXCEPT !.mlError = "Failed to fetch"]

\* detectAnomalies after its await, for the feeds of the n-th poll
DetectSettles(a, n, outcome) ==
  CASE outcome = "success" ->
         [a EXCEPT !.anomalies = n, !.anomalyStats = n, !.mlLoading = FALSE]
    [] outcome = "noSuccess" ->
         [a EXCEPT !.mlLoading = FALSE]
    [] outcome = "notOk" ->
         [a EXCEPT !.mlError = "ML service unavailable", !.mlLoading = FALSE]
    [] OTHER ->
         [a EXCEPT !.mlError = "Failed to fetch", !.mlLoading = FALSE]

ResponseOutcomes == {"ok", "notOk", "failed"}

\* fetchReport up to its await
FetchReport(pn) ==
  [pn EXCEPT !.loading = TRUE,
             !.calls = Append(@, Fetch("GET", AnalyticsOrigin, "/api/report"))]

\* fetchReport after its await
ReportSettles(pn, outcome) ==
  CASE outcome = "ok" ->
         [pn EXCEPT !.report = "report", !.error = "", !.loading = FALSE,
                    !.calls = Tail(@)]
    [] outcome = "notOk" ->
         [pn EXCEPT !.error = "Failed to fetch report", !.loading = FALSE,
                    !.calls = Tail(@)]
    [] OTHER ->
         [pn EXCEPT !.error = "Failed to fetch", !.loading = FALSE,
                    !.calls = Tail(@)]

\* Faulty variant of DownloadStarts: the error of the previous run is kept
DownloadStartsKeepsError(bt) ==
  [bt EXCEPT !.downloading = TRUE,
             !.calls = Append(@, Fetch("GET", AnalyticsOrigin,
                                       "/api/download-report"))]

\* handleDownload up to its await
DownloadStarts(bt) ==
  [bt EXCEPT !.downloading = TRUE, !.error = "",
             !.calls = Append(@, Fetch("GET", AnalyticsOrigin,
                                       "/api/download-report"))]

\* handleDownload after its await
DownloadSettles(bt, outcome) ==
  CASE outcome = "ok" ->
         [bt EXCEPT !.downloading = FALSE, !.calls = Tail(@)]
    [] outcome = "notOk" ->
         [bt EXCEPT !.error = "Failed to generate report",
                    !.downloading = FALSE, !.calls = Tail(@)]
    [] OTHER ->
         [bt EXCEPT !.error = "Failed to fetch", !.downloading = FALSE,
                    !.calls = Tail(@)]

DashboardOff ==
  /\ app = Unmounted
  /\ polls = <<>>
  /\ panel = Unmounted
  /\ button = Unmounted

----------------------------------------------------------------------------
(* Actions *)

\* The gateway process as it is launched
GatewayInit ==
  /\ config = [k \in EnvNames |-> Undefined]
  /\ proc = "starting"
  /\ reqs = [s \in Slots |-> Idle]

Init ==
  /\ env \in Environments
  /\ GatewayInit
  /\ MailerOff
  /\ DashboardOff

\* Module load: read the environment, validate it, and listen
Boot ==
  /\ proc = "starting"
  /\ config' = ReadEnv(env)
  /\ proc' = IF MissingEnv(ReadEnv(env)) THEN "exited" ELSE "listening"
  /\ UNCHANGED <<env, reqs, mailVars, dashVars>>

Receive(s, in) ==
  /\ proc = "listening"
  /\ reqs[s].pc = "idle"
  /\ reqs' = [reqs EXCEPT ![s] = Start(NewReq(in))]
  /\ UNCHANGED <<env, config, proc, mailVars, dashVars>>

\* The upstream answers the pending call (or the connection fails)
UpstreamAnswers(s, a) ==
  /\ proc = "listening"
  /\ Awaiting(reqs[s])
  /\ a \in Answers(LastCall(reqs[s]))
  /\ reqs' = [reqs EXCEPT
       ![s] = Settled(@, a, IF a.ok THEN "resolved" ELSE "rejected")]
  /\ UNCHANGED <<env, config, proc, mailVars, dashVars>>

\* The call's timeout option expires before the upstream answered: axios
\* aborts the request and rejects
TimeoutFires(s) ==
  /\ proc = "listening"
  /\ Awaiting(reqs[s])
  /\ LastCall(reqs[s]).timeout > 0
  /\ reqs' = [reqs EXCEPT
       ![s] = Settled(@, [ok |-> FALSE, kind |-> "timeout", body |-> NoBody,
                          cdisp |-> ""], "aborted")]
  /\ UNCHANGED <<env, config, proc, mailVars, dashVars>>

\* pipe: a chunk from the upstream stream is written to the response
StreamData(s) ==
  /\ proc = "listening"
  /\ reqs[s].pc = "piping"
  /\ Len(reqs[s].upBytes) < MaxChunks
  /\ reqs' = [reqs EXCEPT
       ![s].upBytes = Append(@, PdfChunk(Len(@) + 1)),
       ![s].res.bytes = Append(@, PdfChunk(Len(reqs[s].upBytes) + 1)),
       ![s].res.headersSent = TRUE,
       ![s].res.starts = IF reqs[s].res.headersSent THEN @ ELSE @ + 1]
  /\ UNCHANGED <<env, config, proc, mailVars, dashVars>>

\* pipe: the upstream stream ends, pipe ends the response
StreamEnd(s) ==
  /\ proc = "listening"
  /\ reqs[s].pc = "piping"
  /\ reqs' = [reqs EXCEPT ![s].pc = "done", ![s].upOpen = FALSE,
                          ![s].res.headersSent = TRUE,
                          ![s].res.ended = TRUE,
                          ![s].res.starts =
                             IF reqs[s].res.headersSent THEN @ ELSE @ + 1]
  /\ UNCHANGED <<env, config, proc, mailVars, dashVars>>

\* The upstream stream emits 'error' while piping.  Nothing in the handler
\* listens for it: depending on the axios and Node versions the event is
\* either unhandled (the process dies, and with it every open connection) or
\* swallowed by a library listener (pipe does not end the response, which
\* stays open).
StreamError(s, outcome) ==
  /\ proc = "listening"
  /\ reqs[s].pc = "piping"
  /\ proc' = IF outcome = "crash" THEN "crashed" ELSE proc
  /\ reqs' = IF outcome = "crash"
               THEN [t \in Slots |-> Idle]
               ELSE [reqs EXCEPT ![s].pc = "hung", ![s].upOpen = FALSE]
  /\ UNCHANGED <<env, config, mailVars, dashVars>>

\* The inbound socket is gone: the response object is dead and what it
\* carried can no longer be observed; the upstream stream, unpiped, is read
\* by no one and stays open
Abandoned(q) ==
  [q EXCEPT !.pc = "orphaned", !.res = FreshRes, !.upBytes = <<>>]

\* The client closes its connection mid-transfer, or gives up on a response
\* that never ends.  pipe reacts to the response's 'close' by unpiping the
\* source; nothing destroys the source.
ClientDisconnect(s) ==
  /\ proc = "listening"
  /\ reqs[s].pc \in {"piping", "hung"}
  /\ reqs' = [reqs EXCEPT ![s] = IF @.upOpen THEN Abandoned(@) ELSE Idle]
  /\ UNCHANGED <<env, config, proc, mailVars, dashVars>>

\* The abandoned upstream connection is closed from outside the handler: by
\* the analytics service, or by an idle-socket timer of the HTTP library
OrphanReleased(s) ==
  /\ proc = "listening"
  /\ reqs[s].pc = "orphaned"
  /\ reqs' = [reqs EXCEPT ![s] = Idle]
  /\ UNCHANGED <<env, config, proc, mailVars, dashVars>>

\* The client has its complete response; the connection slot is free again
Release(s) ==
  /\ proc = "listening"
  /\ reqs[s].pc = "done"
  /\ reqs' = [reqs EXCEPT ![s] = Idle]
  /\ UNCHANGED <<env, config, proc, mailVars, dashVars>>

Next ==
  \/ Boot
  \/ \E s \in Slots, in \in Inbound : Receive(s, in)
  \/ \E s \in Slots, a \in AllAnswers : UpstreamAnswers(s, a)
  \/ \E s \in Slots : TimeoutFires(s)
  \/ \E s \in Slots : StreamData(s)
  \/ \E s \in Slots : StreamEnd(s)
  \/ \E s \in Slots, outcome \in {"crash", "hang"} : StreamError(s, outcome)
  \/ \E s \in Slots : ClientDisconnect(s)
  \/ \E s \in Slots : OrphanReleased(s)
  \/ \E s \in Slots : Release(s)

Spec == Init /\ [][Next]_vars

\* Node's timers fire: a call with a timeout option does not outlive it.
\* Nothing obliges an upstream to answer, a stream to end or a client to
\* collect its response.
FairSpec == Spec /\ \A s \in Slots : WF_vars(TimeoutFires(s))

\* A PDF transfer that has started goes on: the analytics service keeps
\* sending until the stream ends or breaks.  Clients may stay or leave, and
\* nothing obliges anyone to close an abandoned connection.
StreamFairSpec ==
  FairSpec /\ \A s \in Slots :
    WF_vars(StreamData(s) \/ StreamEnd(s)
              \/ \E outcome \in {"crash", "hang"} : StreamError(s, outcome))

\* The telemetry routes alone, under everything a caller can vary
CallerNext ==
  \/ Boot
  \/ \E s \in Slots, in \in CallerInbound : Receive(s, in)
  \/ \E s \in Slots, a \in AllAnswers : UpstreamAnswers(s, a)
  \/ \E s \in Slots : TimeoutFires(s)
  \/ \E s \in Slots : Release(s)

CallerSpec == Init /\ [][CallerNext]_vars

----------------------------------------------------------------------------
(* The alert mailer: actions *)

\* The gateway process not running
GatewayOff ==
  /\ env = [k \in EnvNames |-> Undefined]
  /\ GatewayInit

\* require('./utils/emailService'): the module reads its two settings
LoadMailer(key, to) ==
  /\ mail.pc = "unloaded"
  /\ mail' = Loaded(key, AlertRecipient(to))
  /\ UNCHANGED <<env, config, proc, reqs, dashVars>>

\* A caller invokes sendAnomalyAlert(anomalyData)
SendAnomalyAlert(data) ==
  /\ mail.pc = "idle"
  /\ mail' = AlertStart(mail, data)
  /\ UNCHANGED <<env, config, proc, reqs, dashVars>>

\* The fetch to the email API settles
EmailApiAnswers(answer) ==
  /\ mail.pc = "fetching"
  /\ mail' = AlertSettled(mail, answer)
  /\ UNCHANGED <<env, config, proc, reqs, dashVars>>

\* The caller has the settled promise; the function can be called again
AlertReturned ==
  /\ mail.pc = "settled"
  /\ mail' = Loaded(mail.key, mail.to)
  /\ UNCHANGED <<env, config, proc, reqs, dashVars>>

MailerInit == GatewayOff /\ MailerOff /\ DashboardOff

MailerNext ==
  \/ \E key \in ApiKeys, to \in Recipients : LoadMailer(key, to)
  \/ \E data \in AlertInputs : SendAnomalyAlert(data)
  \/ \E answer \in EmailAnswers : EmailApiAnswers(answer)
  \/ AlertReturned

MailerSpec == MailerInit /\ [][MailerNext]_vars

----------------------------------------------------------------------------
(* The dashboard: actions.  Each is one handler run to its next await,      *)
(* followed by the render it causes.                                        *)

\* App changes from its state to b, its invocations to ps; the children
\* follow
Commit(b, ps) ==
  /\ app' = b
  /\ polls' = ps
  /\ panel' = PanelAfter(app, b, panel)
  /\ button' = ButtonAfter(app, b, button)
  /\ UNCHANGED <<env, config, proc, reqs, mailVars>>

\* The page is opened: App mounts and its effect calls fetchData
MountApp ==
  /\ ~app.mounted
  /\ LET r == FetchData(AppInitial, polls) IN Commit(r.app, r.polls)

\* The 20-second interval fires
PollTimer ==
  /\ app.mounted
  /\ Len(polls) < MaxPolls
  /\ LET r == FetchData(app, polls) IN Commit(r.app, r.polls)

\* The user clicks Retry Connection, shown while error is set
RetryClicked ==
  /\ app.mounted
  /\ app.error # ""
  /\ Len(polls) < MaxPolls
  /\ LET r == FetchData(app, polls) IN Commit(r.app, r.polls)

\* The /api/data request of the n-th poll settles
DataResponse(n, outcome) ==
  /\ n \in 1..Len(polls)
  /\ polls[n].pc = "fetching"
  /\ LET r == DataSettles(app, polls, n, outcome) IN Commit(r.app, r.polls)

\* The detection request of the n-th poll settles
DetectResponse(n, outcome) ==
  /\ n \in 1..Len(polls)
  /\ polls[n].pc = "detecting"
  /\ Commit(DetectSettles(app, n, outcome), [polls EXCEPT ![n].pc = "done"])

\* The panel's 120-second interval fires, or Retry or refresh is clicked
ReportRequested ==
  /\ panel.mounted
  /\ Len(panel.calls) < MaxPanelCalls
  /\ panel' = FetchReport(panel)
  /\ UNCHANGED <<env, config, proc, reqs, mailVars, app, polls, button>>

ReportResponse(outcome) ==
  /\ panel.mounted
  /\ panel.calls # <<>>
  /\ panel' = ReportSettles(panel, outcome)
  /\ UNCHANGED <<env, config, proc, reqs, mailVars, app, polls, button>>

\* The download button is clicked; a disabled button takes no click
DownloadClicked ==
  /\ button.mounted
  /\ ~button.downloading
  /\ button' = DownloadStarts(button)
  /\ UNCHANGED <<env, config, proc, reqs, mailVars, app, polls, panel>>

DownloadResponse(outcome) ==
  /\ button.mounted
  /\ button.calls # <<>>
  /\ button' = DownloadSettles(button, outcome)
  /\ UNCHANGED <<env, config, proc, reqs, mailVars, app, polls, panel>>

DashInit == GatewayOff /\ MailerOff /\ DashboardOff

DashNext ==
  \/ MountApp
  \/ PollTimer
  \/ RetryClicked
  \/ \E n \in 1..MaxPolls, outcome \in DataOutcomes : DataResponse(n, outcome)
  \/ \E n \in 1..MaxPolls, outcome \in DetectOutcomes :
       DetectResponse(n, outcome)
  \/ ReportRequested
  \/ \E outcome \in ResponseOutcomes : ReportResponse(outcome)
  \/ DownloadClicked
  \/ \E outcome \in ResponseOutcomes : DownloadResponse(outcome)

DashSpec == DashInit /\ [][DashNext]_vars

\* A request the dashboard sent to the gateway settles: the gateway answers
\* /api/data and /api/ml/detect-anomalies within the timeouts of its own
\* upstream calls, and a gateway that is gone fails the connection.  Nothing
\* obliges the timer to fire or the user to click.
DashFairSpec ==
  DashSpec /\ \A n \in 1..MaxPolls :
    /\ WF_vars(\E outcome \in DataOutcomes : DataResponse(n, outcome))
    /\ WF_vars(\E outcome \in DetectOutcomes : DetectResponse(n, outcome))

----------------------------------------------------------------------------
(* Properties *)

Done(s) == reqs[s].pc = "done"

DoneOn(s, route) == reqs[s].pc = "done" /\ reqs[s].route = route

\* The body is the JSON object {error, message} and nothing else
IsErrorEnvelope(res) ==
  /\ res.json.fmt = "json"
  /\ res.json.j.t = "object"
  /\ DOMAIN res.json.j.o = {"error", "message"}

\* C1: a process started with the channel id, the API key or the analytics
\* URL absent or empty exits without ever listening or handling a request;
\* whenever a request is being handled, the three configuration values are
\* present and are the values of the environment.
C1_ConfigBeforeServing ==
  /\ (\E k \in EnvNames : Falsy(env[k])) =>
       /\ proc \in {"starting", "exited"}
       /\ \A s \in Slots : reqs[s].pc = "idle"
  /\ \A s \in Slots : reqs[s].pc # "idle" =>
       \A k \in EnvNames : ~Falsy(config[k]) /\ config[k] = env[k]

C1_Witness ==
  /\ proc = "exited"
  /\ Falsy(env["ML_SERVICE_URL"])
  /\ ~Falsy(env["THINGSPEAK_CHANNEL_ID"])
  /\ ~Falsy(env["THINGSPEAK_API_KEY"])

\* C2: a GET /api/data whose telemetry call succeeded with a JSON payload is
\* answered 200 with exactly that payload as its body.
C2_DataPassThrough ==
  \A s \in Slots :
    (DoneOn(s, "data") /\ LastCall(reqs[s]).result.ok
       /\ LastCall(reqs[s]).result.body.fmt = "json") =>
      /\ reqs[s].res.statusCode = 200
      /\ reqs[s].res.ended
      /\ reqs[s].res.json = LastCall(reqs[s]).result.body

C2_Witness ==
  \E s \in Slots :
    /\ DoneOn(s, "data")
    /\ LastCall(reqs[s]).result.body = FeedBody
    /\ reqs[s].res.json = FeedBody

ProxyRoutes == {"data", "detect", "train", "report", "download"}

\* The upstream call of the request in slot s failed: it was rejected
\* (timeout, refused connection, non-success status), its body could not be
\* decoded as JSON, or the upstream stream failed after the response started.
UpstreamFailed(s) ==
  \/ reqs[s].pc = "hung"
  \/ /\ reqs[s].pc = "done"
     /\ \/ ~LastCall(reqs[s]).result.ok
        \/ LastCall(reqs[s]).result.body.fmt = "text"

\* C3: on each proxy route every upstream failure ends in a 500 response
\* whose body is {error, message} and holds nothing of the upstream payload.
C3_EveryFailureIs500 ==
  \A s \in Slots :
    (reqs[s].pc \in {"done", "hung"} /\ reqs[s].route \in ProxyRoutes
       /\ UpstreamFailed(s)) =>
      /\ reqs[s].res.statusCode = 500
      /\ reqs[s].res.ended
      /\ IsErrorEnvelope(reqs[s].res)
      /\ reqs[s].res.bytes = <<>>

AnalyticsJsonRoutes == {"detect", "train", "report"}

\* The response is all upstream (200 and the decoded upstream value, which is
\* the payload itself when the upstream body is JSON) or all error (500 and
\* an envelope built from the rejection only)
AllOrNothing(s) ==
  LET call == LastCall(reqs[s])
      res  == reqs[s].res
  IN  IF call.result.ok
        THEN /\ res.statusCode = 200
             /\ res.json.j = call.result.body.j
             /\ call.result.body.fmt = "json" => res.json = call.result.body
        ELSE /\ res.statusCode = 500
             /\ IsErrorEnvelope(res)
             /\ res.json.j.o["error"] = ErrorText(reqs[s].route)
             /\ res.json.j.o["message"] = AxiosMessage(call, call.result.kind)

TelemetryProbe(s) == reqs[s].calls[1]

AnalyticsProbe(s) == reqs[s].calls[2]

StatusBody(s) == reqs[s].res.json.j.o

\* 'connected' exactly when the probe succeeded, 'unavailable' when it failed
ProbeField(probe) == IF probe.result.ok THEN "connected" ELSE "unavailable"

\* C5: /api/status reports thingspeak 'unavailable' and mlService
\* 'connected' when the telemetry probe fails and the analytics probe
\* succeeds; each field is 'connected' exactly when its own probe succeeded
\* and 'unavailable' when it failed; repeated calls under the same upstream
\* conditions give the same answer.
C5_StatusFieldsFollowProbes ==
  /\ \A s \in Slots : DoneOn(s, "status") =>
       /\ StatusBody(s)["thingspeak"] = ProbeField(TelemetryProbe(s))
       /\ StatusBody(s)["mlService"] = ProbeField(AnalyticsProbe(s))
  /\ \A s, t \in Slots :
       (DoneOn(s, "status") /\ DoneOn(t, "status")
          /\ TelemetryProbe(s).result.ok = TelemetryProbe(t).result.ok
          /\ AnalyticsProbe(s).result.ok = AnalyticsProbe(t).result.ok) =>
         reqs[s].res.json = reqs[t].res.json

\* C6: /api/status never fails as a whole: whatever the two probes did, the
\* response is 200 with exactly the fields backend, thingspeak and mlService,
\* and each upstream field is decided by that upstream's own probe alone.
C6_StatusAlways200 ==
  /\ \A s \in Slots : DoneOn(s, "status") =>
       /\ reqs[s].res.statusCode = 200
       /\ reqs[s].res.ended
       /\ reqs[s].res.json.fmt = "json"
       /\ DOMAIN StatusBody(s) = {"backend", "thingspeak", "mlService"}
       /\ StatusBody(s)["thingspeak"] = "connected" <=> TelemetryProbe(s).result.ok
       /\ StatusBody(s)["mlService"] = "connected" <=> AnalyticsProbe(s).result.ok
  /\ \A s, t \in Slots :
       (DoneOn(s, "status") /\ DoneOn(t, "status")) =>
         /\ TelemetryProbe(s).result.ok = TelemetryProbe(t).result.ok =>
              StatusBody(s)["thingspeak"] = StatusBody(t)["thingspeak"]
         /\ AnalyticsProbe(s).result.ok = AnalyticsProbe(t).result.ok =>
              StatusBody(s)["mlService"] = StatusBody(t)["mlService"]

\* Two finished status requests with opposite probe outcomes
C6_Witness ==
  \E s, t \in Slots :
    /\ DoneOn(s, "status") /\ DoneOn(t, "status")
    /\ ~TelemetryProbe(s).result.ok /\ AnalyticsProbe(s).result.ok
    /\ TelemetryProbe(t).result.ok /\ ~AnalyticsProbe(t).result.ok

\* The inbound request in slot s has its response (for the PDF route: the
\* response has been started)
Answered(s) == reqs[s].pc \in {"done", "piping", "hung"}

\* C7: every /api/status request eventually gets its response, even when an
\* upstream never answers.
C7_StatusEventuallyAnswered ==
  \A s \in Slots :
    (reqs[s].pc \in {"awaitTs", "awaitMl"}) ~> (Answered(s) \/ proc = "crashed")

TimedRoutes == {"data", "mlHealth", "detect", "train", "report", "download"}

Budget(route) ==
  CASE route = "data"     -> 10000
    [] route = "mlHealth" -> 5000
    [] route = "detect"   -> 15000
    [] route = "train"    -> 20000
    [] route = "report"   -> 15000
    [] route = "download" -> 20000

\* C8: on every route with a timeout budget the outbound call carries that
\* budget, a call the timer ended is abandoned (aborted, not left pending),
\* and while the process lives a waiting request is eventually answered even
\* if the upstream stays silent.
C8_TimedRoutesAnswered ==
  /\ [](\A s \in Slots :
          (reqs[s].pc # "idle" /\ reqs[s].route \in TimedRoutes) =>
            /\ LastCall(reqs[s]).timeout = Budget(reqs[s].route)
            /\ LastCall(reqs[s]).result.kind = "timeout" =>
                 (LastCall(reqs[s]).state = "aborted" /\ Answered(s)))
  /\ \A s \in Slots :
       (reqs[s].pc = "await") ~> (Answered(s) \/ proc = "crashed")

\* A request answered because its timer fired
C8_Witness ==
  \E s \in Slots :
    /\ DoneOn(s, "detect")
    /\ LastCall(reqs[s]).result.kind = "timeout"
    /\ LastCall(reqs[s]).state = "aborted"

\* C9: /api/ml/health with an unreachable analytics service answers 200 with
\* mlServiceAvailable false, and two such calls failing the same way get the
\* same response.
C9_MlHealthDegradesTo200 ==
  /\ \A s \in Slots :
       (DoneOn(s, "mlHealth") /\ ~LastCall(reqs[s]).result.ok) =>
         /\ reqs[s].res.statusCode = 200
         /\ reqs[s].res.ended
         /\ reqs[s].res.json.fmt = "json"
         /\ reqs[s].res.json.j.o["mlServiceAvailable"] = "false"
  /\ \A s, t \in Slots :
       (DoneOn(s, "mlHealth") /\ DoneOn(t, "mlHealth")
          /\ ~LastCall(reqs[s]).result.ok
          /\ LastCall(reqs[s]).result = LastCall(reqs[t]).result) =>
         reqs[s].res = reqs[t].res

\* The call repeated: two finished health requests, both refused
C9_Witness ==
  \E s, t \in Slots :
    /\ s # t
    /\ DoneOn(s, "mlHealth") /\ DoneOn(t, "mlHealth")
    /\ LastCall(reqs[s]).result.kind = "refused"
    /\ LastCall(reqs[t]).result.kind = "refused"

\* C10: when the analytics /health call succeeds the response carries
\* mlServiceAvailable = true and the fields of the upstream payload, also
\* when that payload has a key named mlServiceAvailable.
C10_FlagReflectsReachability ==
  \A s \in Slots :
    (DoneOn(s, "mlHealth") /\ LastCall(reqs[s]).result.ok) =>
      /\ reqs[s].res.statusCode = 200
      /\ reqs[s].res.json.j.o["mlServiceAvailable"] = "true"
      /\ \A k \in DOMAIN LastCall(reqs[s]).result.body.j.o :
           k # "mlServiceAvailable" =>
             /\ k \in DOMAIN reqs[s].res.json.j.o
             /\ reqs[s].res.json.j.o[k] = LastCall(reqs[s]).result.body.j.o[k]

\* s is a prefix of t
IsPrefix(s, t) == Len(s) <= Len(t) /\ \A i \in 1..Len(s) : s[i] = t[i]

\* C11: a GET /api/download-report whose upstream answered is a 200 with
\* Content-Type application/pdf and with the upstream's Content-Disposition
\* when it sent one, the default report.pdf attachment name when it did not;
\* the body is no JSON but the upstream's chunks in the order they were
\* produced, and once the stream has ended it is all of them.
C11_PdfPassThrough ==
  \A s \in Slots :
    (reqs[s].pc \in {"piping", "done"} /\ reqs[s].route = "download"
       /\ LastCall(reqs[s]).result.ok) =>
      /\ reqs[s].res.statusCode = 200
      /\ reqs[s].res.ctype = "application/pdf"
      /\ reqs[s].res.cdisp =
           (IF LastCall(reqs[s]).result.cdisp # ""
              THEN LastCall(reqs[s]).result.cdisp
              ELSE "attachment; filename=report.pdf")
      /\ reqs[s].res.json = NoBody
      /\ IsPrefix(reqs[s].res.bytes, reqs[s].upBytes)
      /\ reqs[s].pc = "done" =>
           (reqs[s].res.bytes = reqs[s].upBytes /\ reqs[s].res.ended)

\* A finished download of MaxChunks chunks under the upstream's own file name
C11_Witness ==
  \E s \in Slots :
    /\ DoneOn(s, "download")
    /\ LastCall(reqs[s]).result.cdisp = CustomDisposition
    /\ reqs[s].res.cdisp = CustomDisposition
    /\ Len(reqs[s].upBytes) = MaxChunks
    /\ reqs[s].res.bytes = reqs[s].upBytes

\* C12: once a PDF transfer has started, the request ends with the upstream
\* connection released and the inbound response ended, on each exit path:
\* the stream ends, the client disconnects, the upstream fails (the death of
\* the whole process is counted as a release).
C12_DownloadAlwaysReleased ==
  \A s \in Slots :
    (reqs[s].pc = "piping") ~>
      \/ proc = "crashed"
      \/ /\ reqs[s].pc = "done"
         /\ ~reqs[s].upOpen
         /\ reqs[s].res.ended

\* Express routes: the method and path pairs that have a handler
DefinedRoutes ==
  {<<"GET", "/health">>, <<"GET", "/api/data">>, <<"GET", "/api/ml/health">>,
   <<"POST", "/api/ml/detect-anomalies">>, <<"POST", "/api/ml/train-model">>,
   <<"GET", "/api/report">>, <<"GET", "/api/download-report">>,
   <<"GET", "/api/status">>}

Unmatched(s) ==
  reqs[s].pc # "idle" /\ <<reqs[s].method, reqs[s].path>> \notin DefinedRoutes

\* The 404 answer: status 404, a JSON body naming path and method, no
\* outbound call
Is404NamingRequest(s) ==
  /\ reqs[s].pc = "done"
  /\ reqs[s].res.statusCode = 404
  /\ reqs[s].res.ended
  /\ reqs[s].res.json.fmt = "json"
  /\ DOMAIN reqs[s].res.json.j.o = {"error", "path", "method"}
  /\ reqs[s].res.json.j.o["path"] = reqs[s].path
  /\ reqs[s].res.json.j.o["method"] = reqs[s].method
  /\ reqs[s].calls = <<>>

\* C13 as stated: every request whose method and path match no defined route
\* is answered 404 with a body naming the path and the method, and causes no
\* outbound call.
C13_UnmatchedIs404 ==
  \A s \in Slots : Unmatched(s) => Is404NamingRequest(s)

\* C13 (amended): an unmatched request is answered 404 with a body naming
\* path and method unless a middleware answers first: a CORS preflight
\* (OPTIONS) gets 204 with no body, a request whose JSON body does not parse
\* gets 400; none of the three causes an outbound call, and no matched
\* request is answered 404.
C13_UnmatchedIs404UnlessMiddleware ==
  \A s \in Slots :
    /\ Unmatched(s) =>
         /\ reqs[s].pc = "done" /\ reqs[s].calls = <<>> /\ reqs[s].res.ended
         /\ CASE reqs[s].method = "OPTIONS" ->
                   reqs[s].res.statusCode = 204 /\ reqs[s].res.json = NoBody
              [] reqs[s].body = Unparsable -> reqs[s].res.statusCode = 400
              [] OTHER -> Is404NamingRequest(s)
    /\ (reqs[s].pc # "idle" /\ ~Unmatched(s)) => reqs[s].res.statusCode # 404

\* A defined path asked for with another method, answered 404
C13_Witness ==
  \E s \in Slots :
    /\ reqs[s].pc = "done"
    /\ reqs[s].method = "POST" /\ reqs[s].path = "/api/data"
    /\ Is404NamingRequest(s)

\* A response that reports a failure: a 4xx or 5xx status
FailureResponse(s) == reqs[s].pc = "done" /\ reqs[s].res.statusCode >= 400

\* C14: every failure response, the unmatched-route one included, has a JSON
\* body with both an error field and a message field.
C14_UniformErrorEnvelope ==
  \A s \in Slots :
    FailureResponse(s) =>
      /\ reqs[s].res.json.fmt = "json"
      /\ {"error", "message"} \subseteq DOMAIN reqs[s].res.json.j.o

\* The endpoints a request has called so far
Endpoints(q) == {q.calls[i].url : i \in 1..Len(q.calls)}

\* C15: no request calls the same upstream endpoint twice; /health and the
\* unmatched-route answer call nothing, /api/status calls the telemetry feed
\* and then the analytics health endpoint, once each at most, and every other
\* route has made exactly one call from the moment its handler ran, also
\* after that call failed.
C15_NoRetry ==
  \A s \in Slots :
    reqs[s].pc # "idle" =>
      LET q == reqs[s] IN
      /\ Cardinality(Endpoints(q)) = Len(q.calls)
      /\ q.route \in {"health", "notFound"} => q.calls = <<>>
      /\ q.route = "status" =>
           /\ Len(q.calls) \in {1, 2}
           /\ IsTelemetry(q.calls[1].url)
           /\ Len(q.calls) = 2 => q.calls[2].url = MlUrl("/health")
      /\ q.route \in {"data", "mlHealth", "detect", "train", "report",
                      "download"} => Len(q.calls) = 1
      /\ (q.pc = "done" /\ q.calls # <<>>) =>
           LastCall(q).state \in {"resolved", "rejected", "aborted"}

\* A report request answered with the error of its one refused call
C15_Witness ==
  \E s \in Slots :
    /\ DoneOn(s, "report")
    /\ LastCall(reqs[s]).result.kind = "refused"
    /\ Len(reqs[s].calls) = 1
    /\ reqs[s].res.statusCode = 500

ConfiguredTelemetryUrl ==
  [base |-> "https://api.thingspeak.com", path |-> "/channels/:id/feeds.json",
   channel |-> env["THINGSPEAK_CHANNEL_ID"],
   api_key |-> env["THINGSPEAK_API_KEY"], results |-> 50]

\* C17: whatever query string, headers or body a GET /api/data or GET
\* /api/status request carries, its telemetry call goes to the URL the
\* configuration gives; any two such requests call the same URL.
C17_TelemetryUrlFromConfigAlone ==
  /\ \A s \in Slots :
       (reqs[s].pc # "idle" /\ reqs[s].route \in {"data", "status"}) =>
         reqs[s].calls[1].url = ConfiguredTelemetryUrl
  /\ \A s, t \in Slots :
       (reqs[s].pc # "idle" /\ reqs[t].pc # "idle"
          /\ reqs[s].route \in {"data", "status"}
          /\ reqs[t].route \in {"data", "status"}) =>
         reqs[s].calls[1].url = reqs[t].calls[1].url

\* Two requests in flight that differ in what the caller supplied
C17_Witness ==
  \E s, t \in Slots :
    /\ reqs[s].pc = "await" /\ reqs[s].route = "data"
    /\ reqs[t].pc = "awaitTs"
    /\ reqs[s].query = CallerQuery /\ reqs[t].query = ""
    /\ reqs[t].headers = CallerHeader
    /\ reqs[s].calls[1].url = reqs[t].calls[1].url

\* A response sent on a failure path that carries a message field
HasMessage(s) ==
  /\ reqs[s].pc = "done"
  /\ reqs[s].calls # <<>>
  /\ reqs[s].route # "status"
  /\ ~LastCall(reqs[s]).result.ok
  /\ reqs[s].res.json.fmt = "json"
  /\ "message" \in DOMAIN reqs[s].res.json.j.o

\* C18: the message of a failure response does not depend on the upstream
\* address: two calls that failed in the same way (for a timeout: after the
\* same time) give the same message, whichever upstream they went to.
C18_MessageIndependentOfUpstream ==
  \A s, t \in Slots :
    (HasMessage(s) /\ HasMessage(t)
       /\ LastCall(reqs[s]).result.kind = LastCall(reqs[t]).result.kind
       /\ (LastCall(reqs[s]).result.kind = "timeout" =>
             LastCall(reqs[s]).timeout = LastCall(reqs[t]).timeout)) =>
      reqs[s].res.json.j.o["message"] = reqs[t].res.json.j.o["message"]

\* The email API answered OK with a body that decodes
AnsweredOk(m) ==
  m.answer.kind = "response" /\ m.answer.ok /\ m.answer.body = "json"

\* C19: the promise of sendAnomalyAlert never rejects: it resolves to
\* {success: true, data} exactly when the email API answered OK (data being
\* the decoded answer), and otherwise to {success: false, error} with an
\* error, whether the key is missing, the argument malformed, the connection
\* failed, the status was not OK or the body did not decode; without an API
\* key no request is ever sent, and no invocation sends more than one.
C19_AlertNeverFailsCaller ==
  /\ mail.pc \in {"fetching", "settled"} =>
       /\ Len(mail.sent) <= 1
       /\ Falsy(mail.key) => mail.sent = <<>>
  /\ mail.pc = "settled" =>
       /\ mail.promise.state = "resolved"
       /\ mail.promise.success \in {"true", "false"}
       /\ mail.promise.success = "true" <=> AnsweredOk(mail)
       /\ mail.promise.success = "true" =>
            (mail.promise.data = "{id}" /\ mail.sent # <<>>)
       /\ mail.promise.success = "false" => mail.promise.error # ""

\* An OK status whose body does not decode: resolved, with success false
C19_Witness ==
  /\ mail.pc = "settled"
  /\ mail.answer = [kind |-> "response", ok |-> TRUE, body |-> "undecodable"]
  /\ mail.promise = Failed("invalid json response body")
  /\ Len(mail.arg.items) = MaxAnomalies

\* The requests of the dashboard that are in flight
InFlight ==
  (IF app.mounted
     THEN {polls[n].call : n \in {i \in 1..Len(polls) : polls[i].pc # "done"}}
     ELSE {})
  \cup (IF panel.mounted THEN {panel.calls[i] : i \in 1..Len(panel.calls)}
                         ELSE {})
  \cup (IF button.mounted THEN {button.calls[i] : i \in 1..Len(button.calls)}
                          ELSE {})

\* C20: every request the dashboard sends is addressed to the gateway.
C20_AllRequestsToGateway ==
  \A call \in InFlight : call.origin = GatewayOrigin

\* C21: a request is answered at most once.  On every path through the
\* middlewares and the route handlers the status line and headers are handed
\* to the socket at most once per request: never while the handler awaits an
\* upstream call, exactly once (and the response is ended) when the handler
\* has answered, and at most once on the PDF route while the pipe runs or
\* after the upstream stream broke with the headers already written.
C21_AtMostOneResponse ==
  \A s \in Slots :
    reqs[s].pc # "idle" =>
      /\ reqs[s].res.starts <= 1
      /\ reqs[s].res.headersSent <=> reqs[s].res.starts = 1
      /\ Awaiting(reqs[s]) => reqs[s].res.starts = 0
      /\ reqs[s].pc = "done" => reqs[s].res.starts = 1 /\ reqs[s].res.ended
      /\ reqs[s].pc \in {"piping", "hung"} => ~reqs[s].res.ended

\* A PDF transfer broke after its headers were written and was not answered
\* again, while another request got the 500 of a failed upstream call
C21_Witness ==
  \E s, t \in Slots :
    /\ reqs[s].pc = "hung"
    /\ reqs[s].res.bytes # <<>>
    /\ reqs[s].res.starts = 1
    /\ reqs[t].pc = "done"
    /\ reqs[t].res.statusCode = 500
    /\ reqs[t].res.starts = 1

\* Every poll issued so far has run to its end (its /api/data request and,
\* where one was started, its detection request have settled)
AllPollsCompleted ==
  /\ app.mounted
  /\ polls # <<>>
  /\ \A n \in 1..Len(polls) : polls[n].pc = "done"

BroughtBatch(n) == polls[n].result \in {"feeds", "empty"}

\* C22: the last issued poll wins.  Once every poll in flight has completed,
\* and the most recently issued poll brought a batch, the displayed data and
\* lastUpdate are that poll's, and anomalies and statistics on display were
\* computed from the displayed batch, whatever the order of the responses.
C22_LastIssuedPollWins ==
  AllPollsCompleted =>
    /\ BroughtBatch(Len(polls)) =>
          app.data.poll = Len(polls) /\ app.lastUpdate = Len(polls)
    /\ app.anomalies # 0 =>
          app.anomalies = app.data.poll /\ app.anomalyStats = app.data.poll

Detecting(n) == n \in 1..Len(polls) /\ polls[n].pc = "detecting"

\* C23: the progress flags settle.  Once a fetchData call has completed,
\* with or without data, loading is false for good; with no detection call
\* in flight mlLoading is false; every detection call in flight eventually
\* completes, and on completing, whatever its outcome, it sets mlLoading
\* to false.
C23_ProgressFlagsSettle ==
  /\ [](app.mounted =>
         /\ (\E n \in 1..Len(polls) : polls[n].pc # "fetching")
               => ~app.loading
         /\ (\A n \in 1..Len(polls) : polls[n].pc # "detecting")
               => ~app.mlLoading)
  /\ [][\A n \in 1..MaxPolls :
          Detecting(n) /\ ~Detecting(n)' => ~app'.mlLoading]_vars
  /\ \A n \in 1..MaxPolls : Detecting(n) ~> ~Detecting(n)

\* A detection call raised mlLoading and failed, and the flag is down again;
\* the first poll is over and loading is down
C23_Witness ==
  /\ app.mounted
  /\ ~app.loading
  /\ ~app.mlLoading
  /\ app.mlError # ""
  /\ \E n \in 1..Len(polls) :
       polls[n].pc = "done" /\ polls[n].result = "feeds"

\* C24: downloads are single-flight.  A mounted download button has at most
\* one request in flight, and has one exactly while downloading is true;
\* while downloading is true no further run starts; a run that starts does so
\* with downloading false before, true after, and the error cleared; a run
\* that ends leaves downloading false and an error exactly when it failed.
C24_DownloadSingleFlight ==
  /\ [](button.mounted =>
         /\ Len(button.calls) <= 1
         /\ button.downloading <=> button.calls # <<>>
         /\ button.downloading => button.error = "")
  /\ [][button.mounted /\ button'.mounted =>
          /\ button.downloading => Len(button'.calls) <= Len(button.calls)
          /\ Len(button'.calls) > Len(button.calls) =>
                ~button.downloading /\ button'.downloading
                  /\ button'.error = ""
          /\ \A outcome \in ResponseOutcomes :
                DownloadResponse(outcome) =>
                  /\ ~button'.downloading
                  /\ button'.error # "" <=> outcome # "ok"]_vars

\* A download ran and failed: the button is enabled again and shows the error
C24_Witness ==
  /\ button.mounted
  /\ ~button.downloading
  /\ button.calls = <<>>
  /\ button.error = "Failed to generate report"

\* What a failed poll must leave alone
Shown(a) ==
  [data |-> a.data, lastUpdate |-> a.lastUpdate, anomalies |-> a.anomalies,
   anomalyStats |-> a.anomalyStats, mlLoading |-> a.mlLoading,
   mlError |-> a.mlError]

\* C25: a failed poll changes only error and loading.  When the /api/data
\* request of a poll fails or is answered non-OK, data, lastUpdate, anomalies
\* and anomalyStats (and the detection flags) keep their values, error is
\* set, loading is false and no detection call is started; a detection call
\* is in flight only for a poll that brought non-empty feeds, which are then
\* the batch on display when it starts; and a detection call that fails or
\* answers success = false leaves anomalies and anomalyStats as they were.
C25_FailedPollFrame ==
  /\ [](app.mounted =>
         \A n \in 1..Len(polls) :
           polls[n].pc = "detecting" => polls[n].result = "feeds")
  /\ [][\A n \in 1..MaxPolls :
          /\ \A outcome \in {"notOk", "failed"} :
                DataResponse(n, outcome) =>
                  /\ Shown(app') = Shown(app)
                  /\ app'.error # ""
                  /\ ~app'.loading
                  /\ polls'[n].pc = "done"
          /\ \A outcome \in DataOutcomes :
                DataResponse(n, outcome) /\ polls'[n].pc = "detecting" =>
                  /\ outcome = "feeds"
                  /\ app'.data = [poll |-> n, feeds |-> "some"]
          /\ \A outcome \in DetectOutcomes \ {"success"} :
                DetectResponse(n, outcome) =>
                  /\ app'.anomalies = app.anomalies
                  /\ app'.anomalyStats = app.anomalyStats
                  /\ app'.data = app.data]_vars

\* A poll failed after an earlier one had brought data and anomalies: the
\* error is up and both are still there
C25_Witness ==
  /\ app.mounted
  /\ app.error # ""
  /\ app.data.feeds = "some"
  /\ app.anomalies # 0
  /\ \E n \in 1..Len(polls) :
       polls[n].pc = "done" /\ polls[n].result \in {"notOk", "failed"}

====
